---- MODULE Spec2Model ----
(***************************************************************************)
(* Camera stream supervisor (stream_control.py), the capture pipelines     *)
(* that use it (ocr_reader.py, detector.py) and the stand-alone preview    *)
(* (video_stream.py), which starts and stops its streamer itself.          *)
(*                                                                         *)
(* The supervisor's start_stream and stop_stream are modelled statement by *)
(* statement, so that calls of several callers sharing the pid file can    *)
(* interleave.  The operating system is modelled by a process table; its   *)
(* own actions are a child exiting and a pid being taken by a process of   *)
(* another user.  The capture is a buffer of numbered frames; ocr_best and *)
(* normalize_plate are also specified on their own, on bounded texts.      *)
(***************************************************************************)
EXTENDS Integers, Sequences, FiniteSets, TLC

\* ---- bounds of the model ------------------------------------------------

\* Callers (processes that call start_stream / stop_stream on the pid file).
NumCallers == 2
\* Size of the pid space of the process table.
MaxPid == 2
\* Frames read by a pipeline in the whole-program specification.
MaxFrameMain == 4
\* Frames read in the capture-loop specification: 16 OCR frames, one more
\* than the window holds.
MaxFrameVote == 80
\* Frames read in the scripted end-to-end run.
MaxFrameE2E == 30
\* Frames read in the capture-loop run on the texts of the edge lengths.
MaxFrameEdge == 25
\* Frames the streamer sends in the run on a buffered capture.
MaxSent == 12
\* Frames read by a pipeline in the specification with fairness.
MaxFrameLive == 2
\* Length of the texts given to normalize_plate and ocr_best.
MaxTextLen == 3

\* ---- configuration of ocr_reader.py --------------------------------------

OCR_EVERY == 5
HISTORY == 15
REQUIRED == 4
PLATE_MIN == 5
PLATE_MAX == 8
\* The vote threshold of the end-to-end scenario (3).
REQUIRED_E2E == REQUIRED - 1

Callers == 1..NumCallers
Pids == 1..MaxPid

\* The pid file does not exist.
Absent == 0

VARIABLES
    lock,       \* content of the pid file: Absent, or the pid written in it
    procs,      \* process table: pid -> "none" | "child" | "term" | "foreign"
    kind,       \* caller -> "free" | "ocr" | "detector" | "video" | "off"
    mpc,        \* caller -> position in main()
    pc,         \* caller -> position in start_stream / stop_stream, or "idle"
    proc,       \* caller -> proc.pid: local of start_stream (0 outside it), of video_stream.main
    pid,        \* caller -> pid, local of stop_stream (0 outside it)
    ret,        \* caller -> outcome of the caller's last supervisor call
    called,     \* caller -> supervisor function the caller invoked last
    exc,        \* caller -> an exception is propagating through main()
    status,     \* caller -> exit status of the process, -1 while running
    ok,         \* caller -> result of the last cap.read(): "none"|"empty"|"frame"
    frame_id,   \* caller -> frame_id of ocr_reader.main
    hist,       \* caller -> hist, the deque of ocr_reader.main
    plate,      \* caller -> plate of the current iteration
    stable,     \* caller -> stable of the current iteration
    printed,    \* caller -> plates printed by the "OCR: ..." line, in order
    cfg,        \* run: vote threshold, frame budget, OCR texts, keys, reads
    code,       \* caller -> argument of a sys.exit() in progress, 0 when none
    grabs,      \* caller -> cap.grab() calls made before the last cap.read()
    buf,        \* caller -> frames buffered in the caller's capture, oldest first
    sent,       \* caller -> frames the streamer has sent to the caller's capture
    frame,      \* caller -> frame returned by the last cap.read(), 0 when none
    txtA,       \* ocr_best: txt_a, the text read from the normal binary image
    txtB,       \* ocr_best: txt_b, the text read from the inverted binary image
    normA,      \* ocr_best: norm_a
    normB,      \* ocr_best: norm_b
    ocr_ret,    \* ocr_best: the value returned
    ocr_pc,     \* ocr_best: "idle" | "128" | "130" | "ret"
    ppid        \* process table: pid -> caller that spawned the process, or 0

\* State of the captures.
capVars == <<grabs, buf, sent, frame>>

\* State of a call of ocr_best.
ocrVars == <<txtA, txtB, normA, normB, ocr_ret, ocr_pc>>

vars == <<lock, procs, kind, mpc, pc, proc, pid, ret, called, exc, status,
          ok, frame_id, hist, plate, stable, printed, cfg, code, capVars, ocrVars,
          ppid>>

\* ---- operating system ---------------------------------------------------

\* A process of ours that has not exited ("term": SIGTERM was delivered to
\* it and it has not exited).
Alive(p) == procs[p] \in {"child", "term"}

AliveChildren == {p \in Pids : Alive(p)}

\* os.path.exists(pid_file)
Exists(f) == f # Absent

\* A child exits: on its own, or because of a SIGTERM it received.
ChildExit(p) ==
    /\ Alive(p)
    /\ procs' = [procs EXCEPT ![p] = "none"]
    /\ ppid' = [ppid EXCEPT ![p] = 0]
    /\ UNCHANGED <<lock, kind, mpc, pc, proc, pid, ret, called, exc, status,
                   ok, frame_id, hist, plate, stable, printed, cfg, code, capVars, ocrVars>>

\* The pid of an exited process is given to a process of another user.
PidReuse(p) ==
    /\ procs[p] = "none"
    /\ procs' = [procs EXCEPT ![p] = "foreign"]
    /\ UNCHANGED <<lock, kind, mpc, pc, proc, pid, ret, called, exc, status,
                   ok, frame_id, hist, plate, stable, printed, cfg, code, capVars, ocrVars, ppid>>

\* That process exits.
ForeignExit(p) ==
    /\ procs[p] = "foreign"
    /\ procs' = [procs EXCEPT ![p] = "none"]
    /\ UNCHANGED <<lock, kind, mpc, pc, proc, pid, ret, called, exc, status,
                   ok, frame_id, hist, plate, stable, printed, cfg, code, capVars, ocrVars, ppid>>

\* ---- stream_control.start_stream ------------------------------------------

\* start_stream without the test of line 41.
StartCheck_NoCheck(c) ==
    /\ pc[c] = "start41"
    /\ pc' = [pc EXCEPT ![c] = "start56"]
    /\ UNCHANGED <<lock, procs, kind, mpc, proc, pid, ret, called, exc, status,
                   ok, frame_id, hist, plate, stable, printed, cfg, code, capVars, ocrVars, ppid>>

\* Lines 41-43: the pid file exists -> "already running", return.
StartCheck(c) ==
    /\ pc[c] = "start41"
    /\ IF Exists(lock)
         THEN /\ pc' = [pc EXCEPT ![c] = "idle"]
              /\ ret' = [ret EXCEPT ![c] = "AlreadyRunning"]
         ELSE /\ pc' = [pc EXCEPT ![c] = "start56"]
              /\ ret' = ret
    /\ UNCHANGED <<lock, procs, kind, mpc, proc, pid, called, exc, status,
                   ok, frame_id, hist, plate, stable, printed, cfg, code, capVars, ocrVars, ppid>>

\* Line 56: Popen starts rpicam-vid in a new session, under an unused pid.
StartSpawn(c) ==
    /\ pc[c] = "start56"
    /\ \E p \in Pids :
         /\ procs[p] = "none"
         /\ procs' = [procs EXCEPT ![p] = "child"]
         /\ ppid' = [ppid EXCEPT ![p] = c]
         /\ proc' = [proc EXCEPT ![c] = p]
    /\ pc' = [pc EXCEPT ![c] = "start57"]
    /\ UNCHANGED <<lock, kind, mpc, pid, ret, called, exc, status,
                   ok, frame_id, hist, plate, stable, printed, cfg, code, capVars, ocrVars>>

\* Lines 57-59: the pid is written to the pid file (created or overwritten,
\* taken as one step), the function returns.
StartWrite(c) ==
    /\ pc[c] = "start57"
    /\ lock' = proc[c]
    /\ pc' = [pc EXCEPT ![c] = "idle"]
    /\ ret' = [ret EXCEPT ![c] = "Started"]
    /\ proc' = [proc EXCEPT ![c] = 0]
    /\ UNCHANGED <<procs, kind, mpc, pid, called, exc, status,
                   ok, frame_id, hist, plate, stable, printed, cfg, code, capVars, ocrVars, ppid>>

\* ---- stream_control.stop_stream -------------------------------------------

\* stop_stream without the test of line 70.
StopCheck_NoCheck(c) ==
    /\ pc[c] = "stop70"
    /\ pc' = [pc EXCEPT ![c] = "stop74"]
    /\ UNCHANGED <<lock, procs, kind, mpc, proc, pid, ret, called, exc, status,
                   ok, frame_id, hist, plate, stable, printed, cfg, code, capVars, ocrVars, ppid>>

\* Lines 70-72: the pid file is missing -> "no stream running", return.
StopCheck(c) ==
    /\ pc[c] = "stop70"
    /\ IF ~Exists(lock)
         THEN /\ pc' = [pc EXCEPT ![c] = "idle"]
              /\ ret' = [ret EXCEPT ![c] = "NotRunning"]
         ELSE /\ pc' = [pc EXCEPT ![c] = "stop74"]
              /\ ret' = ret
    /\ UNCHANGED <<lock, procs, kind, mpc, proc, pid, called, exc, status,
                   ok, frame_id, hist, plate, stable, printed, cfg, code, capVars, ocrVars, ppid>>

\* Lines 74-75: the pid is read.  open() raises FileNotFoundError when the
\* file was removed since the check; the exception leaves stop_stream.
StopRead(c) ==
    /\ pc[c] = "stop74"
    /\ IF Exists(lock)
         THEN /\ pid' = [pid EXCEPT ![c] = lock]
              /\ pc' = [pc EXCEPT ![c] = "stop77"]
              /\ ret' = ret
         ELSE /\ pid' = pid
              /\ pc' = [pc EXCEPT ![c] = "idle"]
              /\ ret' = [ret EXCEPT ![c] = "Raised"]
    /\ UNCHANGED <<lock, procs, kind, mpc, proc, called, exc, status,
                   ok, frame_id, hist, plate, stable, printed, cfg, code, capVars, ocrVars, ppid>>

\* A stop_stream that signals only a process its caller has spawned.
StopKill_OwnOnly(c) ==
    /\ pc[c] = "stop77"
    /\ IF Alive(pid[c]) /\ ppid[pid[c]] = c
         THEN /\ procs' = [procs EXCEPT ![pid[c]] = "term"]
              /\ ret' = [ret EXCEPT ![c] = "Stopped"]
         ELSE /\ procs' = procs
              /\ ret' = [ret EXCEPT ![c] = "NotFound"]
    /\ pc' = [pc EXCEPT ![c] = "stop83"]
    /\ UNCHANGED <<lock, kind, mpc, proc, pid, called, exc, status,
                   ok, frame_id, hist, plate, stable, printed, cfg, code, capVars, ocrVars, ppid>>

\* Lines 77-81: os.kill(pid, SIGTERM).  The signal is delivered to the one
\* process and os.kill returns at once; ProcessLookupError (no such process)
\* is caught; PermissionError (a process of another user) is not, and
\* leaves stop_stream before the pid file is removed.
StopKill(c) ==
    /\ pc[c] = "stop77"
    /\ CASE Alive(pid[c]) ->
              /\ procs' = [procs EXCEPT ![pid[c]] = "term"]
              /\ pc' = [pc EXCEPT ![c] = "stop83"]
              /\ ret' = [ret EXCEPT ![c] = "Stopped"]
         [] procs[pid[c]] = "none" ->
              /\ procs' = procs
              /\ pc' = [pc EXCEPT ![c] = "stop83"]
              /\ ret' = [ret EXCEPT ![c] = "NotFound"]
         [] OTHER ->
              /\ procs' = procs
              /\ pc' = [pc EXCEPT ![c] = "idle"]
              /\ ret' = [ret EXCEPT ![c] = "Raised"]
    /\ pid' = [pid EXCEPT ![c] = IF pc'[c] = "idle" THEN 0 ELSE pid[c]]
    /\ UNCHANGED <<lock, kind, mpc, proc, called, exc, status,
                   ok, frame_id, hist, plate, stable, printed, cfg, code, capVars, ocrVars, ppid>>

\* Lines 83-86: os.remove(pid_file); FileNotFoundError is swallowed.
StopRemove(c) ==
    /\ pc[c] = "stop83"
    /\ lock' = Absent
    /\ pc' = [pc EXCEPT ![c] = "idle"]
    /\ pid' = [pid EXCEPT ![c] = 0]
    /\ UNCHANGED <<procs, kind, mpc, proc, ret, called, exc, status,
                   ok, frame_id, hist, plate, stable, printed, cfg, code, capVars, ocrVars, ppid>>

\* ---- callers of the supervisor other than the pipelines --------------------

\* A caller invokes start_stream().
CallStart(c) ==
    /\ kind[c] = "free"
    /\ pc[c] = "idle"
    /\ pc' = [pc EXCEPT ![c] = "start41"]
    /\ called' = [called EXCEPT ![c] = "start"]
    /\ UNCHANGED <<lock, procs, kind, mpc, proc, pid, ret, exc, status,
                   ok, frame_id, hist, plate, stable, printed, cfg, code, capVars, ocrVars, ppid>>

\* A caller invokes stop_stream().
CallStop(c) ==
    /\ kind[c] = "free"
    /\ pc[c] = "idle"
    /\ pc' = [pc EXCEPT ![c] = "stop70"]
    /\ called' = [called EXCEPT ![c] = "stop"]
    /\ UNCHANGED <<lock, procs, kind, mpc, proc, pid, ret, exc, status,
                   ok, frame_id, hist, plate, stable, printed, cfg, code, capVars, ocrVars, ppid>>

\* ---- ocr_reader: text normalisation and OCR ------------------------------

LowerCase == <<"a", "b", "c", "d", "e", "f", "g", "h", "i", "j", "k", "l", "m",
               "n", "o", "p", "q", "r", "s", "t", "u", "v", "w", "x", "y", "z">>
UpperCase == <<"A", "B", "C", "D", "E", "F", "G", "H", "I", "J", "K", "L", "M",
               "N", "O", "P", "Q", "R", "S", "T", "U", "V", "W", "X", "Y", "Z">>
Digits == <<"0", "1", "2", "3", "4", "5", "6", "7", "8", "9">>

\* allowed, line 110
Allowed == {UpperCase[i] : i \in DOMAIN UpperCase} \cup {Digits[i] : i \in DOMAIN Digits}

\* Characters str.strip() removes at both ends.
Whitespace == {" ", "\t", "\n", "\r"}

\* str.upper() on one character.
UpperChar(ch) ==
    IF \E i \in DOMAIN LowerCase : LowerCase[i] = ch
      THEN UpperCase[CHOOSE i \in DOMAIN LowerCase : LowerCase[i] = ch]
      ELSE ch

Upper(s) == [i \in DOMAIN s |-> UpperChar(s[i])]

RECURSIVE LStrip(_)
LStrip(s) ==
    IF s # <<>> /\ Head(s) \in Whitespace THEN LStrip(Tail(s)) ELSE s

RECURSIVE RStrip(_)
RStrip(s) ==
    IF s # <<>> /\ s[Len(s)] \in Whitespace
      THEN RStrip(SubSeq(s, 1, Len(s) - 1))
      ELSE s

\* str.strip()
Strip(s) == RStrip(LStrip(s))

\* The characters of s that satisfy Keep, in order.
RECURSIVE Select(_, _)
Select(s, keep) ==
    IF s = <<>> THEN <<>>
    ELSE (IF Head(s) \in keep THEN <<Head(s)>> ELSE <<>>) \o Select(Tail(s), keep)

\* s.replace(" ", "")
RECURSIVE Remove(_, _)
Remove(s, ch) ==
    IF s = <<>> THEN <<>>
    ELSE (IF Head(s) = ch THEN <<>> ELSE <<Head(s)>>) \o Remove(Tail(s), ch)

\* s.replace(a, b) for single characters a, b
Replace(s, a, b) == [i \in DOMAIN s |-> IF s[i] = a THEN b ELSE s[i]]

\* normalize_plate without the replacement of "|".
normalize_plate_NoPipe(s) ==
    LET s1 == Remove(Strip(Upper(s)), " ")
        s2 == Replace(s1, "O", "0")
    IN  Select(s2, Allowed)

\* normalize_plate, lines 108-111
normalize_plate(s) ==
    LET s1 == Remove(Strip(Upper(s)), " ")
        s2 == Replace(Replace(s1, "O", "0"), "|", "1")
    IN  Select(s2, Allowed)

\* ocr_best with > for >=.
ocr_best_PreferInverted(txt_a, txt_b) ==
    LET norm_a == normalize_plate(txt_a)
        norm_b == normalize_plate(txt_b)
    IN  IF Len(norm_a) > Len(norm_b) THEN norm_a ELSE norm_b

\* ocr_best, lines 128-130, on the two texts Tesseract returned.
ocr_best(txt_a, txt_b) ==
    LET norm_a == normalize_plate(txt_a)
        norm_b == normalize_plate(txt_b)
    IN  IF Len(norm_a) >= Len(norm_b) THEN norm_a ELSE norm_b

\* Texts Tesseract returns in the model.
TXT_NONE == <<>>
\* normalises to 4 characters
TXT_SHORT == <<"a", "b", " ", "1", "2", "\n">>
\* two plates of 6 characters
TXT_P1 == <<"A", "B", "1", "2", "C", "D", "\n">>
TXT_P2 == <<"X", "Y", "9", "9", "Z", "Z">>
\* 5, 8 and 9 characters
TXT_MIN == <<"x", "y", "9", "9", "z">>
TXT_MAX == <<"A", "B", "1", "2", "C", "D", "3", "4">>
TXT_LONG == <<"A", "B", "1", "2", "C", "D", "3", "4", "5">>
\* the plate of the end-to-end scenario
TXT_E2E == <<"A", "B", "1", "2", "3", "4">>

\* "plates": the two plates.
PlateTexts == {TXT_P1, TXT_P2}

\* "edges": nothing, a plate, and texts whose lengths are at and next to
\* PLATE_MIN and PLATE_MAX.
EdgeTexts == {TXT_NONE, TXT_SHORT, TXT_MIN, TXT_P1, TXT_MAX, TXT_LONG}

\* Frames on which the OCR of the end-to-end scenario reads the plate.
ScriptFrames == {5, 10, 15, 20}

\* Line 201: what ocr_best may return when Tesseract returns any two of the
\* texts of a set.
PlateOutcomes == {ocr_best(t[1], t[2]) : t \in PlateTexts \X PlateTexts}

EdgeOutcomes == {ocr_best(t[1], t[2]) : t \in EdgeTexts \X EdgeTexts}

\* Line 201: what ocr_best returns in the end-to-end scenario: the plate on
\* the script's frames (the inverted image reads nothing), nothing on the
\* others.
ScriptOutcome(f) ==
    IF f \in ScriptFrames THEN ocr_best(TXT_E2E, TXT_NONE) ELSE ocr_best(TXT_NONE, TXT_NONE)

\* Line 201: the values ocr_best may return on frame f.
OcrOutcomes(f) ==
    CASE cfg.texts = "script" -> {ScriptOutcome(f)}
      [] cfg.texts = "edges" -> EdgeOutcomes
      [] OTHER -> PlateOutcomes

\* Characters of the texts given to ocr_best in the specification of the
\* function: both cases of a letter that is replaced, the bar, two kinds of
\* whitespace, a letter, a digit and a character that is not allowed.
InputChars == {"o", "O", "I", "|", " ", "\n", "b", "7", "-"}

\* The texts of at most n characters.
Texts(n) == UNION {[1..k -> InputChars] : k \in 0..n}

\* Texts of the inverted image: they normalise to 0, 1, 2, 3 and 4 characters.
InvertedTexts == {TXT_NONE, <<"z">>, <<"o", "|">>, <<" ", "k", "7", "q">>, TXT_SHORT}

\* Lines 128-129: the two texts are normalised.
OcrNormalize ==
    /\ ocr_pc = "128"
    /\ normA' = normalize_plate(txtA)
    /\ normB' = normalize_plate(txtB)
    /\ ocr_pc' = "130"
    /\ UNCHANGED <<lock, procs, kind, mpc, pc, proc, pid, ret, called, exc, status,
                   ok, frame_id, hist, plate, stable, printed, cfg, code, capVars,
                   txtA, txtB, ocr_ret, ppid>>

\* Line 130: the function returns.
OcrReturn ==
    /\ ocr_pc = "130"
    /\ ocr_ret' = ocr_best(txtA, txtB)
    /\ ocr_pc' = "ret"
    /\ UNCHANGED <<lock, procs, kind, mpc, pc, proc, pid, ret, called, exc, status,
                   ok, frame_id, hist, plate, stable, printed, cfg, code, capVars,
                   txtA, txtB, normA, normB, ppid>>

\* ---- ocr_reader: the consensus window --------------------------------------

\* A full deque that drops the new element instead of the oldest.
DequeAppend_KeepOldest(h, x, n) ==
    IF Len(h) >= n THEN h ELSE Append(h, x)

\* deque(maxlen=n).append(x), lines 174 and 203
DequeAppend(h, x, n) ==
    IF Len(h) >= n THEN Append(Tail(h), x) ELSE Append(h, x)

\* Counter(h): its keys are the distinct values of h in order of first
\* occurrence, given here by the index of that occurrence.
CounterKeys(h) == {i \in DOMAIN h : \A j \in 1..(i - 1) : h[j] # h[i]}

\* Counter(h)[x]
Count(h, x) == Cardinality({i \in DOMAIN h : h[i] = x})

\* The most common value with ties going to the value that entered last.
most_common1_LastTie(h) ==
    LET keys == CounterKeys(h)
        cnt == [k \in keys |-> Count(h, h[k])]
        i == CHOOSE k \in keys :
               \A j \in keys : cnt[j] < cnt[k] \/ (cnt[j] = cnt[k] /\ k >= j)
    IN  <<h[i], cnt[i]>>

\* Counter(h).most_common(1)[0] of a non-empty h: max(items, key=count), which
\* returns the first item among those of the highest count.
most_common1(h) ==
    LET keys == CounterKeys(h)
        cnt == [k \in keys |-> Count(h, h[k])]
        i == CHOOSE k \in keys :
               \A j \in keys : cnt[j] < cnt[k] \/ (cnt[j] = cnt[k] /\ k <= j)
    IN  <<h[i], cnt[i]>>

\* The vote taken only in the iterations that run the OCR.
StableOf_OnlyOnOcrFrames(h, required) ==
    IF h = <<>> \/ \A c \in Callers : (frame_id[c] + 1) % OCR_EVERY # 0 THEN <<>>
    ELSE LET best == most_common1(h)
         IN  IF best[2] >= required THEN best[1] ELSE <<>>

\* The vote with a threshold one too low.
StableOf_LowThreshold(h, required) ==
    IF h = <<>> THEN <<>>
    ELSE LET best == most_common1(h)
         IN  IF best[2] >= required - 1 THEN best[1] ELSE <<>>

\* The vote with > for >=.
StableOf_Strict(h, required) ==
    IF h = <<>> THEN <<>>
    ELSE LET best == most_common1(h)
         IN  IF best[2] > required THEN best[1] ELSE <<>>

\* Lines 207-211: the stable value for window h, <<>> when there is none.
StableOf(h, required) ==
    IF h = <<>> THEN <<>>
    ELSE LET best == most_common1(h)
         IN  IF best[2] >= required THEN best[1] ELSE <<>>

\* The length filter with < for the first <=.
Accepted_Strict(p) == PLATE_MIN < Len(p) /\ Len(p) <= PLATE_MAX

\* Line 202
Accepted(p) == PLATE_MIN <= Len(p) /\ Len(p) <= PLATE_MAX

\* ---- the capture ------------------------------------------------------------

\* grabs of the call flush_frames(cap, grabs=4), ocr_reader 181
FLUSH_GRABS == 4

\* cap.grab() on the frames b buffered in the capture: the oldest one is
\* dropped; nothing is when none is buffered.
grab(b) == IF b = <<>> THEN b ELSE Tail(b)

\* A flush that makes one grab too few.
RECURSIVE flush_frames_OneShort(_, _)
flush_frames_OneShort(b, grabs_) ==
    IF grabs_ <= 1 THEN b ELSE flush_frames_OneShort(grab(b), grabs_ - 1)

\* flush_frames(cap, grabs), ocr_reader 76-77: what stays buffered.
RECURSIVE flush_frames(_, _)
flush_frames(b, grabs_) ==
    IF grabs_ <= 0 THEN b ELSE flush_frames(grab(b), grabs_ - 1)

\* The reads of the run are served from the buffer of the capture (otherwise
\* every read may give any of the results cfg.reads).
Buffered == cfg.reads = {"buffer"}

\* ok of "ok, frame = cap.read()" on the buffered frames b.
ReadResults(b) ==
    IF Buffered THEN (IF b = <<>> THEN {"empty"} ELSE {"frame"}) ELSE cfg.reads

\* The streamer sends the next frame, which the capture of c buffers.
Produce(c) ==
    /\ Buffered
    /\ mpc[c] = "loop"
    /\ sent[c] < MaxSent
    /\ sent' = [sent EXCEPT ![c] = sent[c] + 1]
    /\ buf' = [buf EXCEPT ![c] = Append(buf[c], sent[c] + 1)]
    /\ UNCHANGED <<lock, procs, kind, mpc, pc, proc, pid, ret, called, exc, status,
                   ok, frame_id, hist, plate, stable, printed, cfg, code,
                   grabs, frame, ocrVars, ppid>>

\* ---- ocr_reader.main and detector.main ------------------------------------

IsPipeline(c) == kind[c] \in {"ocr", "detector"}

\* ocr_reader 165, detector 114: start_stream() is called.
MainStart(c) ==
    /\ IsPipeline(c)
    /\ mpc[c] = "entry"
    /\ mpc' = [mpc EXCEPT ![c] = "start"]
    /\ pc' = [pc EXCEPT ![c] = "start41"]
    /\ called' = [called EXCEPT ![c] = "start"]
    /\ UNCHANGED <<lock, procs, kind, proc, pid, ret, exc, status,
                   ok, frame_id, hist, plate, stable, printed, cfg, code, capVars, ocrVars, ppid>>

\* ocr_reader 166, detector 117: start_stream has returned, time.sleep begins.
MainSleep(c) ==
    /\ IsPipeline(c)
    /\ mpc[c] = "start"
    /\ pc[c] = "idle"
    /\ mpc' = [mpc EXCEPT ![c] = "sleep"]
    /\ UNCHANGED <<lock, procs, kind, pc, proc, pid, ret, called, exc, status,
                   ok, frame_id, hist, plate, stable, printed, cfg, code, capVars, ocrVars, ppid>>

\* ocr_reader 168-176, detector 119-126: the capture is opened.  Opened: the
\* locals of the loop are set and the try block is entered.  Not opened:
\* stop_stream() is called.
MainOpen(c) ==
    /\ IsPipeline(c)
    /\ mpc[c] = "sleep"
    /\ \E opened \in BOOLEAN :
         IF opened
           THEN /\ mpc' = [mpc EXCEPT ![c] = "loop"]
                /\ hist' = [hist EXCEPT ![c] = <<>>]
                /\ frame_id' = [frame_id EXCEPT ![c] = 0]
                /\ UNCHANGED <<pc, called>>
           ELSE /\ mpc' = [mpc EXCEPT ![c] = "failstop"]
                /\ pc' = [pc EXCEPT ![c] = "stop70"]
                /\ called' = [called EXCEPT ![c] = "stop"]
                /\ UNCHANGED <<hist, frame_id>>
    /\ UNCHANGED <<lock, procs, kind, proc, pid, ret, exc, status,
                   ok, plate, stable, printed, cfg, code, capVars, ocrVars, ppid>>

\* ocr_reader 171-172, detector 122-123: stop_stream has returned (or raised),
\* main returns.  An exception leaving main ends the process with status 1.
MainFailReturn(c) ==
    /\ IsPipeline(c)
    /\ mpc[c] = "failstop"
    /\ pc[c] = "idle"
    /\ mpc' = [mpc EXCEPT ![c] = "exit"]
    /\ status' = [status EXCEPT ![c] = IF ret[c] = "Raised" THEN 1 ELSE 0]
    /\ UNCHANGED <<lock, procs, kind, pc, proc, pid, ret, called, exc,
                   ok, frame_id, hist, plate, stable, printed, cfg, code, capVars, ocrVars, ppid>>

\* ocr_reader 179-222: one pass of the capture loop.
LoopIter(c) ==
    /\ kind[c] = "ocr"
    /\ mpc[c] = "loop"
    /\ LET b == flush_frames(buf[c], FLUSH_GRABS)   \* 181
       IN
       /\ grabs' = [grabs EXCEPT ![c] = FLUSH_GRABS]
       /\ \/ \* 183-186: nothing read: sleep, continue
             /\ "empty" \in ReadResults(b)
             /\ ok' = [ok EXCEPT ![c] = "empty"]
             /\ buf' = [buf EXCEPT ![c] = b]
             /\ UNCHANGED <<mpc, frame_id, hist, plate, stable, printed, frame>>
          \/ \* 188-222: a frame was read
             /\ "frame" \in ReadResults(b)
             /\ frame_id[c] < cfg.frames
             /\ buf' = [buf EXCEPT ![c] = grab(b)]
             /\ frame' = [frame EXCEPT ![c] = IF b = <<>> THEN 0 ELSE Head(b)]
             /\ LET f == frame_id[c] + 1
                    ran == f % OCR_EVERY = 0
                IN
                \E p \in (IF ran THEN OcrOutcomes(f) ELSE {<<>>}) :
                  LET add == ran /\ Accepted(p)
                      h == IF add THEN DequeAppend(hist[c], p, HISTORY) ELSE hist[c]
                  IN  /\ ok' = [ok EXCEPT ![c] = "frame"]
                      /\ frame_id' = [frame_id EXCEPT ![c] = f]
                      /\ plate' = [plate EXCEPT ![c] = p]
                      /\ hist' = [hist EXCEPT ![c] = h]
                      /\ printed' = [printed EXCEPT ![c] =
                                       IF add THEN Append(printed[c], p) ELSE printed[c]]
                      /\ stable' = [stable EXCEPT ![c] = StableOf(h, cfg.required)]
                      /\ \E key \in cfg.keys :
                           mpc' = [mpc EXCEPT ![c] = IF key = "q" THEN "finally" ELSE "loop"]
    /\ UNCHANGED <<lock, procs, kind, pc, proc, pid, ret, called, exc, status, cfg,
                   code, sent, ocrVars, ppid>>

\* detector 129-140: one pass of the detection loop.
DetIter(c) ==
    /\ kind[c] = "detector"
    /\ mpc[c] = "loop"
    /\ \/ \* 131-133: nothing read: sleep, continue
          /\ "empty" \in cfg.reads
          /\ ok' = [ok EXCEPT ![c] = "empty"]
          /\ mpc' = mpc
       \/ \* 135-140: a frame was read
          /\ "frame" \in cfg.reads
          /\ ok' = [ok EXCEPT ![c] = "frame"]
          /\ \E key \in cfg.keys \ {"s"} :
               mpc' = [mpc EXCEPT ![c] = IF key = "q" THEN "finally" ELSE "loop"]
    /\ UNCHANGED <<lock, procs, kind, pc, proc, pid, ret, called, exc, status,
                   frame_id, hist, plate, stable, printed, cfg, code, capVars, ocrVars, ppid>>

\* An exception (an OpenCV or Tesseract error, KeyboardInterrupt) is raised
\* inside the try block: control goes to the finally clause.
LoopRaise(c) ==
    /\ IsPipeline(c)
    /\ mpc[c] = "loop"
    /\ mpc' = [mpc EXCEPT ![c] = "finally"]
    /\ exc' = [exc EXCEPT ![c] = TRUE]
    /\ UNCHANGED <<lock, procs, kind, pc, proc, pid, ret, called, status,
                   ok, frame_id, hist, plate, stable, printed, cfg, code, capVars, ocrVars, ppid>>

\* ocr_reader 224-227, detector 142-146: the capture is released, the
\* windows are destroyed and stop_stream() is called.
MainFinally(c) ==
    /\ IsPipeline(c)
    /\ mpc[c] = "finally"
    /\ mpc' = [mpc EXCEPT ![c] = "finstop"]
    /\ pc' = [pc EXCEPT ![c] = "stop70"]
    /\ called' = [called EXCEPT ![c] = "stop"]
    /\ UNCHANGED <<lock, procs, kind, proc, pid, ret, exc, status,
                   ok, frame_id, hist, plate, stable, printed, cfg, code, capVars, ocrVars, ppid>>

\* stop_stream has returned (or raised) in the finally clause: main ends, with
\* status 1 when an exception is propagating.
MainExit(c) ==
    /\ IsPipeline(c)
    /\ mpc[c] = "finstop"
    /\ pc[c] = "idle"
    /\ mpc' = [mpc EXCEPT ![c] = "exit"]
    /\ status' = [status EXCEPT ![c] = IF exc[c] \/ ret[c] = "Raised" THEN 1 ELSE 0]
    /\ UNCHANGED <<lock, procs, kind, pc, proc, pid, ret, called, exc,
                   ok, frame_id, hist, plate, stable, printed, cfg, code, capVars, ocrVars, ppid>>

\* Positions of main outside the try block, after start_stream was called.
Unprotected == {"start", "sleep", "failstop", "finally", "finstop"}

\* KeyboardInterrupt (or another exception) raised outside the try block, or
\* inside the finally clause: the call in progress is abandoned and the
\* process ends with the exception.
Interrupt(c) ==
    /\ IsPipeline(c)
    /\ mpc[c] \in Unprotected
    /\ mpc' = [mpc EXCEPT ![c] = "exit"]
    /\ status' = [status EXCEPT ![c] = 1]
    /\ exc' = [exc EXCEPT ![c] = TRUE]
    /\ pc' = [pc EXCEPT ![c] = "idle"]
    /\ proc' = [proc EXCEPT ![c] = 0]
    /\ pid' = [pid EXCEPT ![c] = 0]
    /\ UNCHANGED <<lock, procs, kind, ret, called,
                   ok, frame_id, hist, plate, stable, printed, cfg, code, capVars, ocrVars, ppid>>

\* ---- video_stream.main -------------------------------------------------------

\* video_stream 107, 51-57: Popen starts rpicam-vid in a session of its own;
\* main keeps the handle in proc and enters the try block.
VsStart(c) ==
    /\ kind[c] = "video"
    /\ mpc[c] = "entry"
    /\ \E p \in Pids :
         /\ procs[p] = "none"
         /\ procs' = [procs EXCEPT ![p] = "child"]
         /\ ppid' = [ppid EXCEPT ![p] = c]
         /\ proc' = [proc EXCEPT ![c] = p]
    /\ mpc' = [mpc EXCEPT ![c] = "vtry"]
    /\ UNCHANGED <<lock, kind, pc, pid, ret, called, exc, status,
                   ok, frame_id, hist, plate, stable, printed, cfg, code, capVars, ocrVars>>

\* video_stream 110-123: the output of the child is echoed, the capture is
\* opened after the delay.  Not opened: sys.exit(1).
VsOpen(c) ==
    /\ kind[c] = "video"
    /\ mpc[c] = "vtry"
    /\ \E opened \in BOOLEAN :
         IF opened
           THEN /\ mpc' = [mpc EXCEPT ![c] = "vread"]
                /\ code' = code
           ELSE /\ mpc' = [mpc EXCEPT ![c] = "vfinally"]
                /\ code' = [code EXCEPT ![c] = 1]
    /\ UNCHANGED <<lock, procs, kind, pc, proc, pid, ret, called, exc, status,
                   ok, frame_id, hist, plate, stable, printed, cfg, capVars, ocrVars, ppid>>

\* video_stream 126-137: the first frame is read.  Nothing read: sys.exit(2).
VsFirstRead(c) ==
    /\ kind[c] = "video"
    /\ mpc[c] = "vread"
    /\ \E r \in cfg.reads :
         /\ ok' = [ok EXCEPT ![c] = r]
         /\ IF r = "frame"
              THEN /\ mpc' = [mpc EXCEPT ![c] = "vloop"]
                   /\ code' = code
              ELSE /\ mpc' = [mpc EXCEPT ![c] = "vfinally"]
                   /\ code' = [code EXCEPT ![c] = 2]
    /\ UNCHANGED <<lock, procs, kind, pc, proc, pid, ret, called, exc, status,
                   frame_id, hist, plate, stable, printed, cfg, capVars, ocrVars, ppid>>

\* video_stream 138-148: one pass of the preview loop.  Nothing read, or the
\* key q: break, the capture is released, the finally clause follows.
VsIter(c) ==
    /\ kind[c] = "video"
    /\ mpc[c] = "vloop"
    /\ \/ \* 140-142: nothing read: break
          /\ "empty" \in cfg.reads
          /\ ok' = [ok EXCEPT ![c] = "empty"]
          /\ mpc' = [mpc EXCEPT ![c] = "vfinally"]
       \/ \* 143-145: a frame was read
          /\ "frame" \in cfg.reads
          /\ ok' = [ok EXCEPT ![c] = "frame"]
          /\ \E key \in cfg.keys \ {"s"} :
               mpc' = [mpc EXCEPT ![c] = IF key = "q" THEN "vfinally" ELSE "vloop"]
    /\ UNCHANGED <<lock, procs, kind, pc, proc, pid, ret, called, exc, status,
                   frame_id, hist, plate, stable, printed, cfg, code, capVars, ocrVars, ppid>>

\* An exception (KeyboardInterrupt, an OpenCV error) is raised inside the try
\* block: control goes to the finally clause.
VsRaise(c) ==
    /\ kind[c] = "video"
    /\ mpc[c] \in {"vtry", "vread", "vloop"}
    /\ mpc' = [mpc EXCEPT ![c] = "vfinally"]
    /\ exc' = [exc EXCEPT ![c] = TRUE]
    /\ UNCHANGED <<lock, procs, kind, pc, proc, pid, ret, called, status,
                   ok, frame_id, hist, plate, stable, printed, cfg, code, capVars, ocrVars, ppid>>

\* video_stream 151, 68-72: stop_stream(proc).  The child has not exited:
\* SIGTERM to its process group, then time.sleep(0.3).
VsStopTerm(c) ==
    /\ kind[c] = "video"
    /\ mpc[c] = "vfinally"
    /\ IF Alive(proc[c])
         THEN /\ procs' = [procs EXCEPT ![proc[c]] = "term"]
              /\ mpc' = [mpc EXCEPT ![c] = "vgrace"]
         ELSE /\ procs' = procs
              /\ mpc' = [mpc EXCEPT ![c] = "vstopped"]
    /\ UNCHANGED <<lock, kind, pc, proc, pid, ret, called, exc, status,
                   ok, frame_id, hist, plate, stable, printed, cfg, code, capVars, ocrVars, ppid>>

\* video_stream 73-76: after the sleep, SIGKILL to the group of a child that
\* has still not exited.
VsStopKill(c) ==
    /\ kind[c] = "video"
    /\ mpc[c] = "vgrace"
    /\ procs' = [procs EXCEPT ![proc[c]] = "none"]
    /\ mpc' = [mpc EXCEPT ![c] = "vstopped"]
    /\ UNCHANGED <<lock, kind, pc, proc, pid, ret, called, exc, status,
                   ok, frame_id, hist, plate, stable, printed, cfg, code, capVars, ocrVars, ppid>>

\* video_stream 152: the finally clause ends; the process ends with the
\* argument of sys.exit, with 1 for another exception, with 0 otherwise.
VsExit(c) ==
    /\ kind[c] = "video"
    /\ mpc[c] = "vstopped"
    /\ mpc' = [mpc EXCEPT ![c] = "exit"]
    /\ status' = [status EXCEPT ![c] =
                    IF code[c] # 0 THEN code[c] ELSE IF exc[c] THEN 1 ELSE 0]
    /\ UNCHANGED <<lock, procs, kind, pc, proc, pid, ret, called, exc,
                   ok, frame_id, hist, plate, stable, printed, cfg, code, capVars, ocrVars, ppid>>

\* KeyboardInterrupt inside the finally clause (stop_stream catches Exception
\* only): the rest of stop_stream is abandoned.
VsInterrupt(c) ==
    /\ kind[c] = "video"
    /\ mpc[c] \in {"vfinally", "vgrace", "vstopped"}
    /\ mpc' = [mpc EXCEPT ![c] = "exit"]
    /\ status' = [status EXCEPT ![c] = 1]
    /\ exc' = [exc EXCEPT ![c] = TRUE]
    /\ UNCHANGED <<lock, procs, kind, pc, proc, pid, ret, called,
                   ok, frame_id, hist, plate, stable, printed, cfg, code, capVars, ocrVars, ppid>>

\* ---- initial states -------------------------------------------------------

\* Keys cv2.waitKey may report: none, quit, save.
Keys == {"none", "q", "s"}

\* Results of cap.read(): nothing, or a frame.
Reads == {"empty", "frame"}

Config(required, frames, texts, keys, reads) ==
    [required |-> required, frames |-> frames, texts |-> texts,
     keys |-> keys, reads |-> reads]

\* No capture is open: nothing buffered, nothing read.
NoCapture ==
    /\ grabs = [c \in Callers |-> 0]
    /\ buf = [c \in Callers |-> <<>>]
    /\ sent = [c \in Callers |-> 0]
    /\ frame = [c \in Callers |-> 0]

\* ocr_best is not being called.
NoOcrCall ==
    /\ txtA = <<>>
    /\ txtB = <<>>
    /\ normA = <<>>
    /\ normB = <<>>
    /\ ocr_ret = <<>>
    /\ ocr_pc = "idle"

\* The state before any program has run: no pid file, no process.
InitWith(kinds, config) ==
    /\ lock = Absent
    /\ procs = [p \in Pids |-> "none"]
    /\ kind = kinds
    /\ mpc = [c \in Callers |-> "entry"]
    /\ pc = [c \in Callers |-> "idle"]
    /\ proc = [c \in Callers |-> 0]
    /\ pid = [c \in Callers |-> 0]
    /\ ret = [c \in Callers |-> "none"]
    /\ called = [c \in Callers |-> "none"]
    /\ exc = [c \in Callers |-> FALSE]
    /\ status = [c \in Callers |-> -1]
    /\ ok = [c \in Callers |-> "none"]
    /\ frame_id = [c \in Callers |-> 0]
    /\ hist = [c \in Callers |-> <<>>]
    /\ plate = [c \in Callers |-> <<>>]
    /\ stable = [c \in Callers |-> <<>>]
    /\ printed = [c \in Callers |-> <<>>]
    /\ cfg = config
    /\ code = [c \in Callers |-> 0]
    /\ ppid = [p \in Pids |-> 0]
    /\ NoCapture
    /\ NoOcrCall

\* Several callers calling start_stream and stop_stream in any order.
InitSup == InitWith([c \in Callers |-> "free"], Config(REQUIRED, 0, "edges", Keys, Reads))

\* One caller calling start_stream and stop_stream one after the other.
InitSeq ==
    InitWith([c \in Callers |-> IF c = 1 THEN "free" ELSE "off"],
             Config(REQUIRED, 0, "edges", Keys, Reads))

NextSup ==
    \/ \E c \in Callers : CallStart(c)
    \/ \E c \in Callers : CallStop(c)
    \/ \E c \in Callers : StartCheck(c)
    \/ \E c \in Callers : StartSpawn(c)
    \/ \E c \in Callers : StartWrite(c)
    \/ \E c \in Callers : StopCheck(c)
    \/ \E c \in Callers : StopRead(c)
    \/ \E c \in Callers : StopKill(c)
    \/ \E c \in Callers : StopRemove(c)
    \/ \E p \in Pids : ChildExit(p)
    \/ \E p \in Pids : PidReuse(p)
    \/ \E p \in Pids : ForeignExit(p)

SpecSup == InitSup /\ [][NextSup]_vars

SpecSeq == InitSeq /\ [][NextSup]_vars

\* The two pipelines, run in the same directory (one pid file).
InitMain ==
    InitWith([c \in Callers |-> IF c = 1 THEN "ocr" ELSE IF c = 2 THEN "detector" ELSE "off"],
             Config(REQUIRED, MaxFrameMain, "edges", Keys, Reads))

\* The OCR pipeline alone, OCR scripted as in the end-to-end scenario.
InitE2E ==
    InitWith([c \in Callers |-> IF c = 1 THEN "ocr" ELSE "off"],
             Config(REQUIRED_E2E, MaxFrameE2E, "script", Keys, Reads))

Supervisor(c) ==
    \/ StartCheck(c)
    \/ StartSpawn(c)
    \/ StartWrite(c)
    \/ StopCheck(c)
    \/ StopRead(c)
    \/ StopKill(c)
    \/ StopRemove(c)

NextE2E ==
    \/ \E c \in Callers : MainStart(c)
    \/ \E c \in Callers : MainSleep(c)
    \/ \E c \in Callers : MainOpen(c)
    \/ \E c \in Callers : MainFailReturn(c)
    \/ \E c \in Callers : LoopIter(c)
    \/ \E c \in Callers : LoopRaise(c)
    \/ \E c \in Callers : MainFinally(c)
    \/ \E c \in Callers : MainExit(c)
    \/ \E c \in Callers : Interrupt(c)
    \/ \E c \in Callers : Supervisor(c)
    \/ \E p \in Pids : ChildExit(p)

NextMain ==
    \/ NextE2E
    \/ \E c \in Callers : DetIter(c)

SpecMain == InitMain /\ [][NextMain]_vars

SpecE2E == InitE2E /\ [][NextE2E]_vars

\* The two pipelines under each combination of what the keyboard and the
\* capture give: the key q on every cv2.waitKey (the quit signal is held) or
\* any key; only empty reads, or empty reads and frames.
InitLive ==
    \E ks \in {{"q"}, Keys}, rs \in {{"empty"}, Reads} :
      InitWith([c \in Callers |-> IF c = 1 THEN "ocr" ELSE IF c = 2 THEN "detector" ELSE "off"],
               Config(REQUIRED, MaxFrameLive, "script", ks, rs))

\* A pipeline that can execute its next statement does execute it.  No
\* exception, and no exit of the child, is bound to happen.
Progress(c) ==
    /\ WF_vars(MainStart(c))
    /\ WF_vars(Supervisor(c))
    /\ WF_vars(MainSleep(c))
    /\ WF_vars(MainOpen(c))
    /\ WF_vars(MainFailReturn(c))
    /\ WF_vars(LoopIter(c))
    /\ WF_vars(DetIter(c))
    /\ WF_vars(MainFinally(c))
    /\ WF_vars(MainExit(c))

SpecLive == InitLive /\ [][NextMain]_vars /\ \A c \in Callers : Progress(c)

\* The OCR pipeline in its capture loop, reading from the buffer of its
\* capture, which the streamer fills with frames numbered 1, 2, ...
InitCap ==
    /\ lock = 1
    /\ procs = [p \in Pids |-> IF p = 1 THEN "child" ELSE "none"]
    /\ kind = [c \in Callers |-> IF c = 1 THEN "ocr" ELSE "off"]
    /\ mpc = [c \in Callers |-> IF c = 1 THEN "loop" ELSE "entry"]
    /\ pc = [c \in Callers |-> "idle"]
    /\ proc = [c \in Callers |-> 0]
    /\ pid = [c \in Callers |-> 0]
    /\ ret = [c \in Callers |-> IF c = 1 THEN "Started" ELSE "none"]
    /\ called = [c \in Callers |-> IF c = 1 THEN "start" ELSE "none"]
    /\ exc = [c \in Callers |-> FALSE]
    /\ status = [c \in Callers |-> -1]
    /\ ok = [c \in Callers |-> "none"]
    /\ frame_id = [c \in Callers |-> 0]
    /\ hist = [c \in Callers |-> <<>>]
    /\ plate = [c \in Callers |-> <<>>]
    /\ stable = [c \in Callers |-> <<>>]
    /\ printed = [c \in Callers |-> <<>>]
    /\ cfg = Config(REQUIRED, MaxSent, "script", {"none"}, {"buffer"})
    /\ code = [c \in Callers |-> 0]
    /\ ppid = [p \in Pids |-> IF p = 1 THEN 1 ELSE 0]
    /\ NoCapture
    /\ NoOcrCall

NextCap ==
    \/ \E c \in Callers : LoopIter(c)
    \/ \E c \in Callers : Produce(c)

SpecCap == InitCap /\ [][NextCap]_vars

\* A call of ocr_best in which Tesseract has returned two texts (lines
\* 126-127 have run).
InitOcr ==
    /\ lock = Absent
    /\ procs = [p \in Pids |-> "none"]
    /\ kind = [c \in Callers |-> "off"]
    /\ mpc = [c \in Callers |-> "entry"]
    /\ pc = [c \in Callers |-> "idle"]
    /\ proc = [c \in Callers |-> 0]
    /\ pid = [c \in Callers |-> 0]
    /\ ret = [c \in Callers |-> "none"]
    /\ called = [c \in Callers |-> "none"]
    /\ exc = [c \in Callers |-> FALSE]
    /\ status = [c \in Callers |-> -1]
    /\ ok = [c \in Callers |-> "none"]
    /\ frame_id = [c \in Callers |-> 0]
    /\ hist = [c \in Callers |-> <<>>]
    /\ plate = [c \in Callers |-> <<>>]
    /\ stable = [c \in Callers |-> <<>>]
    /\ printed = [c \in Callers |-> <<>>]
    /\ cfg = Config(REQUIRED, 0, "edges", Keys, Reads)
    /\ code = [c \in Callers |-> 0]
    /\ ppid = [p \in Pids |-> 0]
    /\ NoCapture
    /\ txtA \in Texts(MaxTextLen)
    /\ txtB \in InvertedTexts
    /\ normA = <<>>
    /\ normB = <<>>
    /\ ocr_ret = <<>>
    /\ ocr_pc = "128"

NextOcr ==
    \/ OcrNormalize
    \/ OcrReturn

SpecOcr == InitOcr /\ [][NextOcr]_vars

\* Instances of video_stream.py.
InitVideo == InitWith([c \in Callers |-> "video"], Config(REQUIRED, 0, "edges", Keys, Reads))

NextVideo ==
    \/ \E c \in Callers : VsStart(c)
    \/ \E c \in Callers : VsOpen(c)
    \/ \E c \in Callers : VsFirstRead(c)
    \/ \E c \in Callers : VsIter(c)
    \/ \E c \in Callers : VsRaise(c)
    \/ \E c \in Callers : VsStopTerm(c)
    \/ \E c \in Callers : VsStopKill(c)
    \/ \E c \in Callers : VsExit(c)
    \/ \E c \in Callers : VsInterrupt(c)
    \/ \E p \in Pids : ChildExit(p)

SpecVideo == InitVideo /\ [][NextVideo]_vars

\* The OCR pipeline in its capture loop (ocr_reader 174-176 have run): the
\* stream was started as pid 1, the window is empty.  Every read returns a
\* frame and no key is pressed, so that a run is long enough to fill the
\* window and evict from it.  One run reads one of the two plates on every
\* OCR frame; a shorter one reads texts of all lengths.
InitVote ==
    /\ lock = 1
    /\ procs = [p \in Pids |-> IF p = 1 THEN "child" ELSE "none"]
    /\ kind = [c \in Callers |-> IF c = 1 THEN "ocr" ELSE "off"]
    /\ mpc = [c \in Callers |-> IF c = 1 THEN "loop" ELSE "entry"]
    /\ pc = [c \in Callers |-> "idle"]
    /\ proc = [c \in Callers |-> 0]
    /\ pid = [c \in Callers |-> 0]
    /\ ret = [c \in Callers |-> IF c = 1 THEN "Started" ELSE "none"]
    /\ called = [c \in Callers |-> IF c = 1 THEN "start" ELSE "none"]
    /\ exc = [c \in Callers |-> FALSE]
    /\ status = [c \in Callers |-> -1]
    /\ ok = [c \in Callers |-> "none"]
    /\ frame_id = [c \in Callers |-> 0]
    /\ hist = [c \in Callers |-> <<>>]
    /\ plate = [c \in Callers |-> <<>>]
    /\ stable = [c \in Callers |-> <<>>]
    /\ printed = [c \in Callers |-> <<>>]
    /\ cfg \in {Config(REQUIRED, MaxFrameVote, "plates", {"none"}, {"frame"}),
                Config(REQUIRED, MaxFrameEdge, "edges", {"none"}, {"frame"})}
    /\ code = [c \in Callers |-> 0]
    /\ ppid = [p \in Pids |-> IF p = 1 THEN 1 ELSE 0]
    /\ NoCapture
    /\ NoOcrCall

NextVote == \E c \in Callers : LoopIter(c)

SpecVote == InitVote /\ [][NextVote]_vars

\* ==== properties ==========================================================

PLATE_P1 == <<"A", "B", "1", "2", "C", "D">>
PLATE_P2 == <<"X", "Y", "9", "9", "Z", "Z">>
PLATE_E2E == <<"A", "B", "1", "2", "3", "4">>

\* The number of times x occurs in h.
Occurrences(h, x) ==
    LET Same(y) == y = x IN Len(SelectSeq(h, Same))

Ocr == {c \in Callers : kind[c] = "ocr"}

\* C1: the stable result is a value only if that value occurs at least
\* REQUIRED times in the window; when no sample of the window reaches
\* REQUIRED occurrences (the empty window included) the stable result is
\* absent; the window [AB12CD, AB12CD, AB12CD, XY99ZZ] gives absent.
C1_StableOnlyIfRequired ==
    \A c \in Ocr :
      /\ stable[c] # <<>> => Occurrences(hist[c], stable[c]) >= REQUIRED
      /\ (\A i \in DOMAIN hist[c] : Occurrences(hist[c], hist[c][i]) < REQUIRED)
            => stable[c] = <<>>
      /\ hist[c] = <<PLATE_P1, PLATE_P1, PLATE_P1, PLATE_P2>> => stable[c] = <<>>

\* The vote has run on the window [AB12CD, AB12CD, AB12CD, XY99ZZ].
C1_Witness ==
    /\ hist[1] = <<PLATE_P1, PLATE_P1, PLATE_P1, PLATE_P2>>
    /\ frame_id[1] = 4 * OCR_EVERY
    /\ stable[1] = <<>>

\* C2: a start_stream call made after a start_stream call has returned, with
\* no stop_stream call in between, finds the pid file, returns "already
\* running", leaves the pid file as the first call left it (holding a pid)
\* and starts no process.
C2_SecondStartSpawnsNothing ==
    [][\A c \in Callers :
         (/\ ret[c] \in {"Started", "AlreadyRunning"}
          /\ pc[c] \in {"idle", "start41"}
          /\ called'[c] # "stop")
         => /\ lock \in Pids
            /\ lock' = lock
            /\ pc'[c] \in {"idle", "start41"}
            /\ AliveChildren' \subseteq AliveChildren
            /\ (pc[c] = "start41" /\ pc'[c] = "idle") => ret'[c] = "AlreadyRunning"]_vars

\* The second of two start_stream calls has returned: one pid file, holding
\* the pid of the one child.
C2_Witness ==
    /\ ret[1] = "AlreadyRunning"
    /\ pc[1] = "idle"
    /\ lock \in Pids
    /\ AliveChildren = {lock}

\* C3: at most one child started through the pid file is alive, whatever the
\* interleaving of the callers' start_stream and stop_stream calls.
C3_AtMostOneChildAlive == Cardinality(AliveChildren) <= 1

\* C4: a pipeline whose start_stream call has returned does not exit without
\* having called stop_stream.
C4_ExitOnlyAfterStop ==
    \A c \in Callers :
      (IsPipeline(c) /\ mpc[c] = "exit" /\ ret[c] # "none") => called[c] = "stop"

\* C5: when stop_stream, having found the pid file, returns, the process
\* whose pid it read is not alive.
C5_StopLeavesProcessDead ==
    [][\A c \in Callers :
         (pc[c] = "stop83" /\ pc'[c] = "idle") => procs'[pid[c]] \notin {"child", "term"}]_vars

\* C6: stop_stream called with the pid file missing returns "not running"
\* without raising, signals no process and leaves no pid file.
C6_StopOnMissingIsNoOp ==
    [][\A c \in Callers :
         (pc[c] = "stop70" /\ lock = Absent /\ pc'[c] # pc[c])
         => /\ pc'[c] = "idle"
            /\ ret'[c] = "NotRunning"
            /\ lock' = Absent
            /\ procs' = procs]_vars

\* stop_stream has returned "not running"; the call before it was a
\* stop_stream too, whose SIGTERM the child has not obeyed.
C6_Witness ==
    /\ ret[1] = "NotRunning"
    /\ pc[1] = "idle"
    /\ lock = Absent
    /\ \E p \in Pids : procs[p] = "term"

\* C7: when stop_stream, having found the pid file, returns or raises, the
\* pid file is absent.
C7_StopRemovesLock ==
    [][\A c \in Callers :
         (pc[c] \in {"stop74", "stop77", "stop83"} /\ pc'[c] = "idle" /\ mpc'[c] = mpc[c])
         => lock' = Absent]_vars

\* C8: on an OCR frame the candidate is appended to the window (and printed)
\* if its length is within PLATE_MIN..PLATE_MAX, and otherwise the window is
\* left as it was.
C8_AppendedIffLengthInRange ==
    [][\A c \in Ocr :
         (frame_id'[c] = frame_id[c] + 1 /\ frame_id'[c] % OCR_EVERY = 0)
         => IF Len(plate'[c]) \in PLATE_MIN..PLATE_MAX
              THEN /\ printed'[c] = Append(printed[c], plate'[c])
                   /\ hist'[c] # <<>>
                   /\ hist'[c][Len(hist'[c])] = plate'[c]
              ELSE /\ printed'[c] = printed[c]
                   /\ hist'[c] = hist[c]]_vars

\* A candidate of 6 characters was accepted on the first OCR frame and one of
\* 4 characters rejected on the second.
C8_Witness ==
    /\ frame_id[1] = 2 * OCR_EVERY
    /\ Len(plate[1]) = 4
    /\ hist[1] = <<PLATE_P1>>

\* The last n elements of s.
LastN(s, n) == IF Len(s) <= n THEN s ELSE SubSeq(s, Len(s) - n + 1, Len(s))

\* C9: the window holds at most HISTORY samples, and they are the most
\* recent accepted samples in the order they were accepted.
C9_WindowIsLastAccepted ==
    \A c \in Ocr :
      /\ Len(hist[c]) <= HISTORY
      /\ hist[c] = LastN(printed[c], HISTORY)

\* One sample more than the window holds was accepted; the first one is not
\* in the window any more.
C9_Witness ==
    /\ Len(printed[1]) = HISTORY + 1
    /\ printed[1][1] = PLATE_P2
    /\ \A i \in 2..(HISTORY + 1) : printed[1][i] = PLATE_P1
    /\ hist[1] = [i \in 1..HISTORY |-> PLATE_P1]

\* C10: with the vote threshold 3 and OCR reading AB1234 on frames 5, 10, 15
\* and 20 only, the stable result is absent before frame 15 and AB1234 from
\* frame 15 on.
C10_StableFromThirdReading ==
    \A c \in Ocr :
      /\ cfg.required = 3
      /\ frame_id[c] < 15 => stable[c] = <<>>
      /\ frame_id[c] >= 15 => stable[c] = PLATE_E2E

\* Frame 20 has been processed.
C10_Witness ==
    /\ frame_id[1] = 20
    /\ hist[1] = <<PLATE_E2E, PLATE_E2E, PLATE_E2E, PLATE_E2E>>
    /\ stable[1] = PLATE_E2E

\* C11: a pipeline whose capture failed to open has called stop_stream and
\* ends with a non-zero exit status, never having entered the capture loop.
C11_OpenFailureExitsNonZero ==
    [][\A c \in Callers :
         (IsPipeline(c) /\ mpc[c] = "failstop" /\ mpc'[c] = "exit")
         => /\ called[c] = "stop"
            /\ ok[c] = "none"
            /\ status'[c] # 0]_vars

\* C12: a pass of a capture loop whose read gives nothing stays in the loop
\* and leaves the frame counter, the window and the stable value as they were.
C12_EmptyReadNotFatal ==
    [][\A c \in Callers :
         (mpc[c] \in {"loop", "vloop"} /\ ok'[c] = "empty" /\ exc'[c] = exc[c])
         => /\ mpc'[c] = mpc[c]
            /\ frame_id'[c] = frame_id[c]
            /\ hist'[c] = hist[c]
            /\ stable'[c] = stable[c]]_vars

\* C13: with the quit key held, a pipeline that is in its capture loop
\* eventually calls stop_stream (unless an exception ends it first), whatever
\* the reads return.
C13_QuitReachesStop ==
    \A c \in Callers :
      (cfg.keys = {"q"} /\ IsPipeline(c) /\ mpc[c] = "loop")
        ~> (called[c] = "stop" \/ exc[c])

\* C14: in both pipelines, every cap.read() of the capture loop was preceded
\* in its iteration by a flush of the configured number of frames.
C14_ReadPrecededByFlush ==
    \A c \in Callers :
      (IsPipeline(c) /\ ok[c] # "none") => grabs[c] = FLUSH_GRABS

\* Frames a flush of n grabs discards from a buffer of len frames.
Discarded(n, len) == IF n <= len THEN n ELSE len

\* C15: a pass of the loop on a capture that buffers the frames b discards
\* the first min(FLUSH_GRABS, Len(b)) of them, in order, and reads the next
\* one, which is newer than every discarded frame; it reads nothing when no
\* frame is left.
C15_FlushThenRead ==
    [][\A c \in Callers :
         LET b == buf[c]
             d == Discarded(FLUSH_GRABS, Len(b))
         IN  (mpc[c] = "loop" /\ sent'[c] = sent[c])
             => IF Len(b) > d
                  THEN /\ ok'[c] = "frame"
                       /\ frame'[c] = b[d + 1]
                       /\ \A i \in 1..d : b[i] < frame'[c]
                       /\ buf'[c] = SubSeq(b, d + 2, Len(b))
                  ELSE /\ ok'[c] = "empty"
                       /\ frame'[c] = frame[c]
                       /\ buf'[c] = <<>>]_vars

\* The first read of a run found six frames buffered: it returned the fifth.
C15_Witness ==
    /\ frame_id[1] = 1
    /\ ok[1] = "frame"
    /\ frame[1] = FLUSH_GRABS + 1
    /\ buf[1] = <<FLUSH_GRABS + 2>>

\* What the normalisation makes of one character: nothing of whitespace and
\* of a character outside A-Z0-9, "0" of the letter O, "1" of the bar, the
\* capital of a letter, the digit of a digit.
Normal(ch) ==
    IF ch \in {"o", "O"} THEN <<"0">>
    ELSE IF ch = "|" THEN <<"1">>
    ELSE IF \E i \in 1..26 : ch \in {LowerCase[i], UpperCase[i]}
      THEN <<UpperCase[CHOOSE i \in 1..26 : ch \in {LowerCase[i], UpperCase[i]}]>>
    ELSE IF \E i \in 1..10 : ch = Digits[i] THEN <<ch>>
    ELSE <<>>

RECURSIVE Normalized(_)
Normalized(s) == IF s = <<>> THEN <<>> ELSE Normal(Head(s)) \o Normalized(Tail(s))

C18_LongerOrNormal ==
    ocr_pc = "ret"
    => /\ Len(normA) > Len(normB) => ocr_ret = normA
       /\ Len(normA) < Len(normB) => ocr_ret = normB
       /\ Len(normA) = Len(normB) => ocr_ret = normA
       /\ Len(ocr_ret) >= Len(normA) /\ Len(ocr_ret) >= Len(normB)
       /\ ocr_ret \in {normA, normB}

\* Two different texts of three characters: the one of the normal image was
\* returned.
C18_Witness ==
    /\ ocr_pc = "ret"
    /\ Len(normA) = 3
    /\ Len(normB) = 3
    /\ normA # normB
    /\ ocr_ret = normA

C19_StableChangesOnlyOnAccept ==
    [][\A c \in Callers :
         LET ran == frame_id'[c] % OCR_EVERY = 0
             inrange == PLATE_MIN <= Len(plate'[c]) /\ Len(plate'[c]) <= PLATE_MAX
         IN  (kind[c] = "ocr" /\ mpc[c] = "loop" /\ frame_id'[c] = frame_id[c] + 1
                /\ (~ran \/ plate'[c] = <<>> \/ ~inrange))
             => (hist'[c] = hist[c] /\ stable'[c] = stable[c])]_vars

\* The plate read four times is stable; the fifth OCR frame has read a text
\* of nine characters, which the filter rejected.
C19_Witness ==
    /\ frame_id[1] = 5 * OCR_EVERY
    /\ Len(plate[1]) = PLATE_MAX + 1
    /\ hist[1] = <<PLATE_P1, PLATE_P1, PLATE_P1, PLATE_P1>>
    /\ stable[1] = PLATE_P1

\* Index of the first occurrence of x in h.
FirstIndex(h, x) == CHOOSE i \in DOMAIN h : h[i] = x /\ \A j \in 1..(i - 1) : h[j] # x

\* The value of the window h with the most occurrences and, among those, the
\* oldest first occurrence, when it occurs at least required times.
Vote(h, required) ==
    LET values == {h[i] : i \in DOMAIN h}
        top == {x \in values : \A y \in values : Occurrences(h, y) <= Occurrences(h, x)}
        winner == CHOOSE x \in top : \A y \in top : FirstIndex(h, x) <= FirstIndex(h, y)
    IN  IF h # <<>> /\ Occurrences(h, winner) >= required THEN winner ELSE <<>>

\* C20: the stable value is a function of the window alone: the value with
\* the most occurrences, at least REQUIRED, and of several such values the
\* one whose first occurrence in the window is the oldest.
C20_StableIsVoteOfWindow ==
    \A c \in Callers :
      (kind[c] = "ocr" /\ mpc[c] = "loop") => stable[c] = Vote(hist[c], cfg.required)

\* Two plates tie with four occurrences each; the stable one is the plate
\* at the head of the window, not the plate that was read last.
C20_Witness ==
    /\ Occurrences(hist[1], PLATE_P1) = REQUIRED
    /\ Occurrences(hist[1], PLATE_P2) = REQUIRED
    /\ hist[1][1] = PLATE_P2
    /\ hist[1][Len(hist[1])] = PLATE_P1
    /\ stable[1] = PLATE_P2

\* C21: every streamer that start_stream has spawned and that has not exited
\* is the process whose pid the pid file holds.
C21_AliveChildIsTracked ==
    \A p \in Pids : Alive(p) => lock = p

\* The same between calls only (no start_stream or stop_stream in progress).
C21_AliveChildIsTrackedAtRest ==
    (\A c \in Callers : pc[c] = "idle") => \A p \in Pids : Alive(p) => lock = p

====
